---- MODULE Spec2Model ----
(***************************************************************************)
(* State-machine model of the GPIO tester (src/main.py): one process run   *)
(* from argument parsing to process exit, against a model of the RPi.GPIO  *)
(* driver (pin modes, levels, edge detection with bouncetime, cleanup).    *)
(*                                                                         *)
(* The main thread moves through pc; the driver's notification thread runs *)
(* queued edge callbacks; the environment toggles the watched input line,  *)
(* advances the wall clock, delivers one operator interrupt (SIGINT) and   *)
(* lets a driver call fail.  Time is counted in ticks of 500 ms.           *)
(***************************************************************************)
EXTENDS Integers, Sequences, FiniteSets, TLC

\* ------------------------------------------------------------ bounds ----
MaxCycles == 2        \* largest --cycles value tried
MaxRounds == 2        \* passes of cycle_all's "while True" that are followed
MaxDuration == 1      \* largest --duration tried, in ticks
MaxDebounce == 2      \* largest --debounce tried, in ticks
MaxTransitions == 3   \* raw transitions of the watched line in one run

\* --------------------------------------------------- program constants ----
HIGH == 1
LOW == 0
SleepTicks == 1       \* time.sleep(0.5) in the watch loop, one tick

\* ------------------------------------------------------------ registry ----
\* A descriptor is a record carrying only the keys its table entry has.
In(n, p, d, pl) == [name |-> n, pin |-> p, dir |-> d, pull |-> pl]
InAL(n, p, d, pl, al) == [name |-> n, pin |-> p, dir |-> d, pull |-> pl, active_low |-> al]
Out(n, p, d) == [name |-> n, pin |-> p, dir |-> d]
OutAH(n, p, d, ah) == [name |-> n, pin |-> p, dir |-> d, active_high |-> ah]

LOW_FILL_SENSOR == InAL("LOW_FILL_SENSOR", 18, "IN", "UP", TRUE)
ESPRESSO_PUMP_RELAY == OutAH("ESPRESSO_PUMP_RELAY", 23, "OUT", TRUE)

\* The table of the source and other tables its configuration block can hold.
Registries ==
    { <<LOW_FILL_SENSOR, ESPRESSO_PUMP_RELAY>>,
      <<InAL("S2", 17, "in", "DOWN", FALSE)>>,
      <<OutAH("R1", 23, "OUT", FALSE), In("S3", 18, "IN", "NONE")>>,
      <<OutAH("R1", 23, "OUT", TRUE), OutAH("R2", 24, "out", FALSE), Out("R3", 25, "OUT")>> }

Names(reg) == {reg[j].name : j \in 1..Len(reg)}
PinIds(reg) == {reg[j].pin : j \in 1..Len(reg)}

\* PINS[pin_name]
Lookup(reg, n) == reg[CHOOSE j \in 1..Len(reg) : reg[j].name = n]

\* str.upper() on the direction / pull strings the tables use
Upper(s) ==
    CASE s = "in" -> "IN"
      [] s = "out" -> "OUT"
      [] s = "up" -> "UP"
      [] s = "down" -> "DOWN"
      [] OTHER -> s

\* cfg.get(key, default)
Get(cfg, key, default) == IF key \in DOMAIN cfg THEN cfg[key] ELSE default

\* the pull-up/down selection of _setup_gpio
Pud(cfg) ==
    LET pull == Upper(Get(cfg, "pull", "UP"))
    IN  IF pull = "UP" THEN "PUD_UP"
        ELSE IF pull = "DOWN" THEN "PUD_DOWN"
        ELSE "PUD_OFF"

\* the comprehension without its direction filter
Outs_NoFilter(reg) == reg

\* [(n, c) for n, c in PINS.items() if c["dir"].upper() == "OUT"]
RECURSIVE Outs(_)
Outs(reg) ==
    IF reg = << >> THEN << >>
    ELSE IF Upper(Head(reg).dir) = "OUT" THEN <<Head(reg)>> \o Outs(Tail(reg))
    ELSE Outs(Tail(reg))

\* the polarity ignored: ON is always HIGH
_level_for_on_NoPolarity(cfg, on) == IF on THEN HIGH ELSE LOW

_level_for_on(cfg, on) ==
    LET active_high == Get(cfg, "active_high", TRUE)
    IN  IF on = active_high THEN HIGH ELSE LOW

\* active_low ignored: HIGH always reads as ACTIVE
_fmt_input_ActiveHigh(cfg, level) == IF level = HIGH THEN "ACTIVE" ELSE "INACTIVE"

_fmt_input(cfg, level) ==
    LET active_low == Get(cfg, "active_low", FALSE)
    IN  IF (level = LOW /\ active_low) \/ (level = HIGH /\ ~active_low)
        THEN "ACTIVE" ELSE "INACTIVE"

\* --------------------------------------------------- the state argument ----
\* A string is a sequence of one-character strings.
LowerChar(c) ==
    CASE c = "O" -> "o" [] c = "N" -> "n" [] c = "F" -> "f" [] c = "H" -> "h"
      [] c = "I" -> "i" [] c = "G" -> "g" [] c = "L" -> "l" [] c = "W" -> "w"
      [] c = "T" -> "t" [] c = "R" -> "r" [] c = "U" -> "u" [] c = "E" -> "e"
      [] c = "A" -> "a" [] c = "S" -> "s" [] c = "Y" -> "y"
      [] OTHER -> c

\* no case folding
Lower_Identity(s) == s

Lower(s) == [j \in 1..Len(s) |-> LowerChar(s[j])]

IsSpace(c) == c \in {" ", "\t", "\n"}

RECURSIVE LStrip(_)
LStrip(s) == IF s # << >> /\ IsSpace(Head(s)) THEN LStrip(Tail(s)) ELSE s

RECURSIVE RStrip(_)
RStrip(s) ==
    IF s # << >> /\ IsSpace(s[Len(s)]) THEN RStrip(SubSeq(s, 1, Len(s) - 1)) ELSE s

Strip(s) == RStrip(LStrip(s))

OnWords == { <<"o","n">>, <<"h","i","g","h">>, <<"1">>, <<"t","r","u","e">> }

\* everything that is not an OFF word counts as ON
LogicalOn_UnlessOff(state) ==
    Lower(Strip(state)) \notin
        { <<"o","f","f">>, <<"l","o","w">>, <<"0">>, <<"f","a","l","s","e">> }

\* state.strip().lower() in ("on", "high", "1", "true")
LogicalOn(state) == Lower(Strip(state)) \in OnWords

StateArgs ==
    { <<"o","n">>, <<"O","N">>, <<"H","i","g","h">>, <<"1">>, <<"T","R","U","E">>,
      <<" ","o","n"," ">>,
      <<"h","i","g","h">>, <<"t","r","u","e">>, <<"o","N">>,
      <<"o","f","f">>, <<"O","F","F">>, <<"l","o","w">>, <<"0">>, <<"F","a","l","s","e">>,
      <<"L","o","W">>, <<"f","a","l","s","e">>, <<"F","A","L","S","E">>,
      <<"y","e","s">>, << >> }

\* ------------------------------------------------------------ arguments ----
NoPin == "NO_SUCH_PIN"

Args(l, c, p, n, d, b, s) ==
    [list |-> l, cmd |-> c, pin |-> p, cycles |-> n, duration |-> d, debounce |-> b, state |-> s]

ArgsFor(reg) ==
    LET pins == Names(reg) \cup {NoPin}
    IN  { Args(TRUE, c, NoPin, 0, 0, 1, << >>) : c \in {"none", "cycle"} }
        \cup { Args(FALSE, c, NoPin, 0, 0, 1, << >>) : c \in {"none", "cycle"} }
        \cup { Args(FALSE, "test", p, n, 0, 1, << >>) : p \in pins, n \in 0..MaxCycles }
        \cup { Args(FALSE, "set", p, 0, 0, 1, s) : p \in pins, s \in StateArgs }
        \cup { Args(FALSE, "watch", p, 0, d, b, << >>) :
                   p \in pins, d \in 0..MaxDuration, b \in 1..MaxDebounce }

\* ---------------------------------------------------------------- state ----
VARIABLES
    PINS,        \* the registry, fixed for the run
    args,        \* the parsed command line
    pc,          \* position of the main thread
    exc,         \* exception in flight: "none", "KeyboardInterrupt", "Exception"
    exit,        \* "running", or how the process ended
    mode,        \* GPIO.setmode state: "UNSET" or "BCM"
    gpio,        \* pin -> direction and pull the driver has configured
    level,       \* pin -> electrical level of the line
    ops,         \* driver calls made so far, in order
    out,         \* lines printed so far, in order
    cleanups,    \* number of GPIO.cleanup() calls
    interrupted, \* "no", or the main thread's position when the interrupt struck
    j,           \* index of the pin _setup_gpio configures next
    k,           \* index into outs in cycle_all
    i,           \* cycle number in test_pin_output
    round,       \* pass of cycle_all's "while True"
    now,         \* wall clock, ticks
    t_end,       \* watch deadline, -1 before it is computed
    wake,        \* end of the current time.sleep(0.5)
    detect,      \* edge detection on the watched pin: armed, bouncetime, lastcall
    pending,     \* edge callbacks queued in the notification thread
    raw          \* raw transitions of the watched line seen while armed

vars == <<PINS, args, pc, exc, exit, mode, gpio, level, ops, out, cleanups, interrupted,
          j, k, i, round, now, t_end, wake, detect, pending, raw>>

mainVars == <<pc, exc, exit>>
driverVars == <<mode, gpio, level, ops, cleanups, detect>>
loopVars == <<j, k, i, round>>
clockVars == <<now, t_end, wake>>
edgeVars == <<pending, raw>>

Unset == [dir |-> "UNSET", pud |-> "PUD_OFF"]
NoDetect == [armed |-> FALSE, bouncetime |-> 0, lastcall |-> -1]

Op(o, p, v, c) == [op |-> o, pin |-> p, val |-> v, ctx |-> c]

\* a printed line: its tag, the device it names, and what it reports
Line(t, n, v) == [tag |-> t, name |-> n, val |-> v]

\* the watched line may rest at either level; every other line starts LOW
Init ==
    /\ PINS \in Registries
    /\ args \in ArgsFor(PINS)
    /\ pc = "main"
    /\ exc = "none"
    /\ exit = "running"
    /\ mode = "UNSET"
    /\ gpio = [p \in PinIds(PINS) |-> Unset]
    /\ level \in [PinIds(PINS) -> {LOW, HIGH}]
    /\ \A p \in PinIds(PINS) :
           (args.cmd # "watch" \/ args.pin = NoPin \/ Lookup(PINS, args.pin).pin # p)
               => level[p] = LOW
    /\ ops = << >>
    /\ out = << >>
    /\ cleanups = 0
    /\ interrupted = "no"
    /\ j = 1
    /\ k = 1
    /\ i = 1
    /\ round = 1
    /\ now = 0
    /\ t_end = -1
    /\ wake = 0
    /\ detect = NoDetect
    /\ pending = 0
    /\ raw = << >>

\* ------------------------------------------------------- driver effects ----
\* GPIO.cleanup(): every channel back to an unconfigured input, edge
\* detection removed, numbering mode forgotten.
Cleanup(ctx) ==
    /\ cleanups' = cleanups + 1
    /\ gpio' = [p \in PinIds(PINS) |-> Unset]
    /\ mode' = "UNSET"
    /\ detect' = NoDetect
    /\ ops' = Append(ops, Op("cleanup", 0, 0, ctx))
    /\ UNCHANGED level

\* GPIO.output(pin, value)
Output(pin, value) ==
    /\ level' = [level EXCEPT ![pin] = value]
    /\ ops' = Append(ops, Op("output", pin, value, "main"))
    /\ UNCHANGED <<mode, gpio, cleanups, detect>>

\* GPIO.output(pin, _level_for_on(cfg, on)) inside a try block:
\* _level_for_on raises ValueError for a descriptor that is not an OUTPUT
Drive(cfg, on, nextpc) ==
    IF Upper(cfg.dir) # "OUT"
    THEN /\ exc' = "Exception"
         /\ pc' = "finally"
         /\ UNCHANGED driverVars
    ELSE /\ Output(cfg.pin, _level_for_on(cfg, on))
         /\ pc' = nextpc
         /\ exc' = exc

\* ------------------------------------------------------------- main() ----
\* the --list test placed after _setup_gpio()
ListOnly_AfterSetup ==
    /\ pc = "main"
    /\ args.list
    /\ pc' = "setup"
    /\ mode' = "BCM"
    /\ j' = 1
    /\ UNCHANGED <<PINS, args, exc, exit, gpio, level, ops, out, cleanups, detect,
                   interrupted, k, i, round, clockVars, edgeVars>>

\* --list: list_pins() and return, before any driver call
ListOnly ==
    /\ pc = "main"
    /\ args.list
    /\ pc' = "exit"
    /\ exit' = "ok"
    /\ out' = Append(out, Line("INFO", "", "Available pins"))
    /\ UNCHANGED <<PINS, args, exc, driverVars, interrupted, loopVars, clockVars, edgeVars>>

\* _setup_gpio(): GPIO.setmode(GPIO.BCM)
SetMode ==
    /\ pc = "main"
    /\ ~args.list
    /\ pc' = "setup"
    /\ mode' = "BCM"
    /\ j' = 1
    /\ UNCHANGED <<PINS, args, exc, exit, gpio, level, ops, out, cleanups, detect,
                   interrupted, k, i, round, clockVars, edgeVars>>

\* _setup_gpio(): one GPIO.setup per registry entry, in order
_setup_gpio ==
    /\ pc = "setup"
    /\ j <= Len(PINS)
    /\ LET cfg == PINS[j]
           pin == cfg.pin
       IN  IF Upper(cfg.dir) = "OUT"
           THEN /\ gpio' = [gpio EXCEPT ![pin] = [dir |-> "OUT", pud |-> "PUD_OFF"]]
                /\ level' = [level EXCEPT ![pin] = LOW]
                /\ ops' = Append(ops, Op("setup", pin, LOW, "main"))
           ELSE /\ gpio' = [gpio EXCEPT ![pin] = [dir |-> "IN", pud |-> Pud(cfg)]]
                /\ level' = level
                /\ ops' = Append(ops, Op("setup", pin, level[pin], "main"))
    /\ j' = j + 1
    /\ UNCHANGED <<PINS, args, mainVars, mode, out, cleanups, detect, interrupted,
                   k, i, round, clockVars, edgeVars>>

SetupDone ==
    /\ pc = "setup"
    /\ j > Len(PINS)
    /\ pc' = "dispatch"
    /\ UNCHANGED <<PINS, args, exc, exit, driverVars, out, interrupted, loopVars,
                   clockVars, edgeVars>>

\* the function returned to main(), which returns: the process ends normally
Return ==
    /\ pc = "return"
    /\ pc' = "exit"
    /\ exit' = "ok"
    /\ UNCHANGED <<PINS, args, exc, driverVars, out, interrupted, loopVars, clockVars, edgeVars>>

\* no command: list_pins() and the hints, after _setup_gpio()
DefaultHelp ==
    /\ pc = "dispatch"
    /\ args.cmd = "none"
    /\ pc' = "return"
    /\ out' = out \o <<Line("INFO", "", "Available pins"), Line("HINT", "", "Examples")>>
    /\ UNCHANGED <<PINS, args, exc, exit, driverVars, interrupted, loopVars, clockVars, edgeVars>>

\* ---------------------------------------------------------- cycle_all ----
outs == Outs(PINS)

cycle_all ==
    /\ pc = "dispatch"
    /\ args.cmd = "cycle"
    /\ IF outs = << >>
       THEN /\ out' = Append(out, Line("WARN", "", "No OUTPUT pins"))
            /\ pc' = "return"
       ELSE /\ out' = Append(out, Line("INFO", "", "Cycling outputs"))
            /\ pc' = "cyc_on"
    /\ k' = 1
    /\ round' = 1
    /\ UNCHANGED <<PINS, args, exc, exit, driverVars, interrupted, j, i, clockVars, edgeVars>>

CycleOn ==
    /\ pc = "cyc_on"
    /\ round <= MaxRounds
    /\ LET cfg == outs[k]
       IN  /\ out' = Append(out, Line("STATE", cfg.name, "ON"))
           /\ Drive(cfg, TRUE, "cyc_hold_on")
    /\ UNCHANGED <<PINS, args, exit, interrupted, loopVars, clockVars, edgeVars>>

CycleOff ==
    /\ pc = "cyc_off"
    /\ LET cfg == outs[k]
       IN  /\ out' = Append(out, Line("STATE", cfg.name, "OFF"))
           /\ Drive(cfg, FALSE, "cyc_hold_off")
    /\ UNCHANGED <<PINS, args, exit, interrupted, loopVars, clockVars, edgeVars>>

\* the for loop never leaves its first device
CycleHold_StuckOnFirst ==
    /\ pc \in {"cyc_hold_on", "cyc_hold_off"}
    /\ IF pc = "cyc_hold_on"
       THEN /\ pc' = "cyc_off"
            /\ round' = round
       ELSE /\ pc' = "cyc_on"
            /\ round' = round + 1
    /\ k' = k
    /\ UNCHANGED <<PINS, args, exc, exit, driverVars, out, interrupted, j, i, clockVars, edgeVars>>

\* time.sleep(delay) runs out; after the OFF hold the for loop moves on and
\* "while True" starts it again after the last device
CycleHold ==
    /\ pc \in {"cyc_hold_on", "cyc_hold_off"}
    /\ IF pc = "cyc_hold_on"
       THEN /\ pc' = "cyc_off"
            /\ UNCHANGED <<k, round>>
       ELSE /\ pc' = "cyc_on"
            /\ IF k < Len(outs)
               THEN /\ k' = k + 1
                    /\ round' = round
               ELSE /\ k' = 1
                    /\ round' = round + 1
    /\ UNCHANGED <<PINS, args, exc, exit, driverVars, out, interrupted, j, i, clockVars, edgeVars>>

\* ----------------------------------------------------- test_pin_output ----
test_pin_output ==
    /\ pc = "dispatch"
    /\ args.cmd = "test"
    /\ IF args.pin \notin Names(PINS)
       THEN /\ out' = Append(out, Line("ERROR", args.pin, "Unknown pin"))
            /\ pc' = "return"
       ELSE IF Upper(Lookup(PINS, args.pin).dir) # "OUT"
       THEN /\ out' = Append(out, Line("ERROR", args.pin, "is INPUT"))
            /\ pc' = "return"
       ELSE /\ out' = Append(out, Line("INFO", args.pin, "Testing OUTPUT"))
            /\ pc' = IF 1 <= args.cycles THEN "test_on" ELSE "test_completed"
    /\ i' = 1
    /\ UNCHANGED <<PINS, args, exc, exit, driverVars, interrupted, j, k, round, clockVars, edgeVars>>

TestOn ==
    /\ pc = "test_on"
    /\ LET cfg == Lookup(PINS, args.pin)
       IN  /\ out' = Append(out, Line("CYCLE", cfg.name, "ON"))
           /\ Drive(cfg, TRUE, "test_hold_on")
    /\ UNCHANGED <<PINS, args, exit, interrupted, loopVars, clockVars, edgeVars>>

TestOff ==
    /\ pc = "test_off"
    /\ LET cfg == Lookup(PINS, args.pin)
       IN  /\ out' = Append(out, Line("CYCLE", cfg.name, "OFF"))
           /\ Drive(cfg, FALSE, "test_hold_off")
    /\ UNCHANGED <<PINS, args, exit, interrupted, loopVars, clockVars, edgeVars>>

\* range(1, cycles + 2): one cycle too many
TestHold_OneMore ==
    /\ pc \in {"test_hold_on", "test_hold_off"}
    /\ IF pc = "test_hold_on"
       THEN /\ pc' = "test_off"
            /\ i' = i
       ELSE /\ pc' = IF i + 1 <= args.cycles + 1 THEN "test_on" ELSE "test_completed"
            /\ i' = i + 1
    /\ UNCHANGED <<PINS, args, exc, exit, driverVars, out, interrupted, j, k, round, clockVars, edgeVars>>

\* time.sleep(delay) runs out; range(1, cycles + 1) ends after cycle `cycles`
TestHold ==
    /\ pc \in {"test_hold_on", "test_hold_off"}
    /\ IF pc = "test_hold_on"
       THEN /\ pc' = "test_off"
            /\ i' = i
       ELSE /\ pc' = IF i + 1 <= args.cycles THEN "test_on" ELSE "test_completed"
            /\ i' = i + 1
    /\ UNCHANGED <<PINS, args, exc, exit, driverVars, out, interrupted, j, k, round, clockVars, edgeVars>>

TestCompleted ==
    /\ pc = "test_completed"
    /\ out' = Append(out, Line("INFO", args.pin, "Completed testing"))
    /\ pc' = "finally"
    /\ UNCHANGED <<PINS, args, exc, exit, driverVars, interrupted, loopVars, clockVars, edgeVars>>

\* ---------------------------------------------------------- set_output ----
set_output ==
    /\ pc = "dispatch"
    /\ args.cmd = "set"
    /\ IF args.pin \notin Names(PINS)
       THEN /\ out' = Append(out, Line("ERROR", args.pin, "Unknown pin"))
            /\ pc' = "return"
       ELSE IF Upper(Lookup(PINS, args.pin).dir) # "OUT"
       THEN /\ out' = Append(out, Line("ERROR", args.pin, "is INPUT"))
            /\ pc' = "return"
       ELSE /\ out' = out
            /\ pc' = "set_write"
    /\ UNCHANGED <<PINS, args, exc, exit, driverVars, interrupted, loopVars, clockVars, edgeVars>>

SetWrite ==
    /\ pc = "set_write"
    /\ LET cfg == Lookup(PINS, args.pin)
       IN  Drive(cfg, LogicalOn(args.state), "set_read")
    /\ UNCHANGED <<PINS, args, exit, out, interrupted, loopVars, clockVars, edgeVars>>

\* the confirmation takes the electrical level for the logical state
SetRead_ReportsPhysical ==
    /\ pc = "set_read"
    /\ LET cfg == Lookup(PINS, args.pin)
           phys == IF level[cfg.pin] = HIGH THEN "HIGH" ELSE "LOW"
       IN  /\ ops' = Append(ops, Op("input", cfg.pin, level[cfg.pin], "main"))
           /\ out' = Append(out, Line("INFO", cfg.name,
                                      <<IF level[cfg.pin] = HIGH THEN "ON" ELSE "OFF", phys>>))
    /\ pc' = "finally"
    /\ UNCHANGED <<PINS, args, exc, exit, mode, gpio, level, cleanups, detect, interrupted,
                   loopVars, clockVars, edgeVars>>

\* GPIO.input(pin) and the confirmation line with the logical state and the
\* physical level read back
SetRead ==
    /\ pc = "set_read"
    /\ LET cfg == Lookup(PINS, args.pin)
           phys == IF level[cfg.pin] = HIGH THEN "HIGH" ELSE "LOW"
       IN  /\ ops' = Append(ops, Op("input", cfg.pin, level[cfg.pin], "main"))
           /\ out' = Append(out, Line("INFO", cfg.name,
                                      <<IF LogicalOn(args.state) THEN "ON" ELSE "OFF", phys>>))
    /\ pc' = "finally"
    /\ UNCHANGED <<PINS, args, exc, exit, mode, gpio, level, cleanups, detect, interrupted,
                   loopVars, clockVars, edgeVars>>

\* --------------------------------------------------------- watch_input ----
\* watch_input without its direction check
watch_input_AnyDirection ==
    /\ pc = "dispatch"
    /\ args.cmd = "watch"
    /\ IF args.pin \notin Names(PINS)
       THEN /\ out' = Append(out, Line("ERROR", args.pin, "Unknown pin"))
            /\ pc' = "return"
       ELSE /\ out' = Append(out, Line("INFO", args.pin, "Watching INPUT"))
            /\ pc' = "w_init"
    /\ UNCHANGED <<PINS, args, exc, exit, driverVars, interrupted, loopVars, clockVars, edgeVars>>

watch_input ==
    /\ pc = "dispatch"
    /\ args.cmd = "watch"
    /\ IF args.pin \notin Names(PINS)
       THEN /\ out' = Append(out, Line("ERROR", args.pin, "Unknown pin"))
            /\ pc' = "return"
       ELSE IF Upper(Lookup(PINS, args.pin).dir) # "IN"
       THEN /\ out' = Append(out, Line("ERROR", args.pin, "is OUTPUT"))
            /\ pc' = "return"
       ELSE /\ out' = Append(out, Line("INFO", args.pin, "Watching INPUT"))
            /\ pc' = "w_init"
    /\ UNCHANGED <<PINS, args, exc, exit, driverVars, interrupted, loopVars, clockVars, edgeVars>>

\* the pin watch_input reads
watched == Lookup(PINS, args.pin)

\* what a line printed about the input carries: raw level and logical state
Report(cfg, val) == <<IF val = LOW THEN "LOW" ELSE "HIGH", _fmt_input(cfg, val)>>

\* s0 = GPIO.input(pin) and the "Initial:" line
WatchInitial ==
    /\ pc = "w_init"
    /\ ops' = Append(ops, Op("input", watched.pin, level[watched.pin], "main"))
    /\ out' = Append(out, Line("STATE Initial", watched.name, Report(watched, level[watched.pin])))
    /\ pc' = "w_add"
    /\ UNCHANGED <<PINS, args, exc, exit, mode, gpio, level, cleanups, detect, interrupted,
                   loopVars, clockVars, edgeVars>>

\* GPIO.add_event_detect(pin, GPIO.BOTH, callback, bouncetime) and
\* t_end = time.time() + duration
WatchAddEventDetect ==
    /\ pc = "w_add"
    /\ detect' = [armed |-> TRUE, bouncetime |-> args.debounce, lastcall |-> -1]
    /\ ops' = Append(ops, Op("add_event_detect", watched.pin, args.debounce, "main"))
    /\ t_end' = now + args.duration
    /\ pc' = "w_loop"
    /\ UNCHANGED <<PINS, args, exc, exit, mode, gpio, level, cleanups, out, interrupted,
                   loopVars, now, wake, edgeVars>>

\* one pass of "while time.time() < t_end": read, print, start the sleep
WatchPoll ==
    /\ pc = "w_loop"
    /\ now < t_end
    /\ ops' = Append(ops, Op("input", watched.pin, level[watched.pin], "main"))
    /\ out' = Append(out, Line("STATE", watched.name, Report(watched, level[watched.pin])))
    /\ wake' = now + SleepTicks
    /\ pc' = "w_sleep"
    /\ UNCHANGED <<PINS, args, exc, exit, mode, gpio, level, cleanups, detect, interrupted,
                   loopVars, now, t_end, edgeVars>>

\* time.sleep(0.5) returns
WatchWake ==
    /\ pc = "w_sleep"
    /\ now >= wake
    /\ pc' = "w_loop"
    /\ UNCHANGED <<PINS, args, exc, exit, driverVars, out, interrupted, loopVars, clockVars, edgeVars>>

\* the loop condition asks for more time than the clock is followed
WatchExpire_TooLate ==
    /\ pc = "w_loop"
    /\ now > t_end + SleepTicks
    /\ out' = Append(out, Line("INFO", watched.name, "Done watching"))
    /\ pc' = "finally"
    /\ UNCHANGED <<PINS, args, exc, exit, driverVars, interrupted, loopVars, clockVars, edgeVars>>

\* the loop condition fails: "Done watching input."
WatchExpire ==
    /\ pc = "w_loop"
    /\ now >= t_end
    /\ out' = Append(out, Line("INFO", watched.name, "Done watching"))
    /\ pc' = "finally"
    /\ UNCHANGED <<PINS, args, exc, exit, driverVars, interrupted, loopVars, clockVars, edgeVars>>

WatchPcs == {"w_init", "w_add", "w_loop", "w_sleep"}

\* the wall clock advances while the watch loop runs; the clock is read from
\* the moment t_end is computed and followed until the last sleep is over
Tick ==
    /\ pc \in {"w_loop", "w_sleep"}
    /\ now < t_end + SleepTicks
    /\ now' = now + 1
    /\ UNCHANGED <<PINS, args, mainVars, driverVars, out, interrupted, loopVars, t_end, wake, edgeVars>>

\* The watched line changes level.  With edge detection armed the driver's
\* poll thread queues the callbacks unless the last run was within bouncetime
\* (event_detect.c: timenow - lastcall > bouncetime, or no call yet).
RawTransition ==
    /\ pc \in WatchPcs \cup {"finally"}
    /\ args.cmd = "watch"
    /\ Len(raw) < MaxTransitions
    /\ LET pin == watched.pin
           new == IF level[pin] = HIGH THEN LOW ELSE HIGH
       IN  /\ level' = [level EXCEPT ![pin] = new]
           /\ raw' = Append(raw, [t |-> now, val |-> new, armed |-> detect.armed])
           /\ IF detect.armed
                 /\ (detect.lastcall = -1 \/ now - detect.lastcall > detect.bouncetime)
              THEN /\ detect' = [detect EXCEPT !.lastcall = now]
                   /\ pending' = pending + 1
              ELSE /\ detect' = detect
                   /\ pending' = pending
    /\ UNCHANGED <<PINS, args, mainVars, mode, gpio, ops, cleanups, out, interrupted,
                   loopVars, clockVars>>

\* watch_input._callback in the notification thread: reads the pin as it is
\* now and prints the edge; after cleanup the read is refused by the driver
_callback ==
    /\ pending > 0
    /\ exit = "running"
    /\ pending' = pending - 1
    /\ LET pin == watched.pin
           val == level[pin]
       IN  IF gpio[pin].dir = "IN"
           THEN /\ ops' = Append(ops, Op("input", pin, val, "callback"))
                /\ out' = Append(out, Line("EDGE", watched.name,
                                           <<IF val = HIGH THEN "RISING" ELSE "FALLING">>
                                               \o Report(watched, val)))
           ELSE /\ ops' = Append(ops, Op("input refused", pin, -1, "callback"))
                /\ out' = out
    /\ UNCHANGED <<PINS, args, mainVars, mode, gpio, level, cleanups, detect, interrupted,
                   loopVars, clockVars, raw>>

\* ------------------------------------------------ try / finally / exit ----
TryPcs ==
    {"cyc_on", "cyc_hold_on", "cyc_off", "cyc_hold_off",
     "test_on", "test_hold_on", "test_off", "test_hold_off", "test_completed",
     "set_write", "set_read",
     "w_init", "w_add", "w_loop", "w_sleep"}

\* positions at which the next statement is a driver call
DriverCallPcs ==
    {"cyc_on", "cyc_off", "test_on", "test_off", "set_write", "set_read",
     "w_init", "w_add", "w_loop"}

\* the "finally:" clause of cycle_all, test_pin_output, set_output and
\* watch_input; a caught or absent exception lets the function return, any
\* other goes on to the caller
Finally ==
    /\ pc = "finally"
    /\ Cleanup("main")
    /\ out' = Append(out, Line("CLEANUP", "", "GPIO reset"))
    /\ pc' = IF exc = "none" THEN "return" ELSE "unwind"
    /\ UNCHANGED <<PINS, args, exc, exit, interrupted, loopVars, clockVars, edgeVars>>

\* "except Exception:" around main(): cleanup, report, re-raise
MainExcept ==
    /\ pc = "unwind"
    /\ exc = "Exception"
    /\ Cleanup("main")
    /\ out' = Append(out, Line("CLEANUP", "", "GPIO reset due to exception"))
    /\ pc' = "exit"
    /\ exit' = "Exception"
    /\ UNCHANGED <<PINS, args, exc, interrupted, loopVars, clockVars, edgeVars>>

\* KeyboardInterrupt is not an Exception: it leaves the process uncaught
Uncaught ==
    /\ pc = "unwind"
    /\ exc = "KeyboardInterrupt"
    /\ pc' = "exit"
    /\ exit' = "KeyboardInterrupt"
    /\ UNCHANGED <<PINS, args, exc, driverVars, out, interrupted, loopVars, clockVars, edgeVars>>

\* the loops without their "except KeyboardInterrupt" clause
Interrupt_NoExceptClause ==
    /\ interrupted = "no"
    /\ pc \in TryPcs \cup {"setup"}
    /\ interrupted' = pc
    /\ pc' = IF pc = "setup" THEN "unwind" ELSE "finally"
    /\ exc' = "KeyboardInterrupt"
    /\ UNCHANGED <<PINS, args, exit, driverVars, out, loopVars, clockVars, edgeVars>>

\* The operator's interrupt reaches the main thread.  Inside the try blocks
\* of cycle_all, test_pin_output and watch_input "except KeyboardInterrupt"
\* takes it; set_output has no such clause; outside a try block it unwinds.
Interrupt ==
    /\ interrupted = "no"
    /\ pc \in TryPcs \cup {"setup"}
    /\ interrupted' = pc
    /\ IF pc = "setup"
       THEN /\ pc' = "unwind"
            /\ exc' = "KeyboardInterrupt"
            /\ out' = out
       ELSE IF args.cmd = "set"
       THEN /\ pc' = "finally"
            /\ exc' = "KeyboardInterrupt"
            /\ out' = out
       ELSE /\ pc' = "finally"
            /\ exc' = "none"
            /\ out' = Append(out, Line("INFO", "",
                                       IF args.cmd = "cycle" THEN "Stopped" ELSE "Interrupted"))
    /\ UNCHANGED <<PINS, args, exit, driverVars, loopVars, clockVars, edgeVars>>

\* A driver call raises (RuntimeError and the like) instead of acting.
DriverFault ==
    /\ \/ pc \in DriverCallPcs /\ (pc = "w_loop" => now < t_end)
       \/ pc = "setup" /\ j <= Len(PINS)
    /\ exc' = "Exception"
    /\ pc' = IF pc = "setup" THEN "unwind" ELSE "finally"
    /\ UNCHANGED <<PINS, args, exit, driverVars, out, interrupted, loopVars, clockVars, edgeVars>>

Next ==
    \/ ListOnly
    \/ SetMode
    \/ _setup_gpio
    \/ SetupDone
    \/ DefaultHelp
    \/ cycle_all
    \/ CycleOn
    \/ CycleOff
    \/ CycleHold
    \/ test_pin_output
    \/ TestOn
    \/ TestOff
    \/ TestHold
    \/ TestCompleted
    \/ set_output
    \/ SetWrite
    \/ SetRead
    \/ watch_input
    \/ WatchInitial
    \/ WatchAddEventDetect
    \/ WatchPoll
    \/ WatchWake
    \/ WatchExpire
    \/ Tick
    \/ RawTransition
    \/ _callback
    \/ Finally
    \/ MainExcept
    \/ Uncaught
    \/ Interrupt
    \/ DriverFault
    \/ Return

Spec == Init /\ [][Next]_vars

\* the steps of the main thread
MainStep ==
    \/ ListOnly \/ SetMode \/ _setup_gpio \/ SetupDone \/ DefaultHelp \/ Return
    \/ cycle_all \/ CycleOn \/ CycleOff \/ CycleHold
    \/ test_pin_output \/ TestOn \/ TestOff \/ TestHold \/ TestCompleted
    \/ set_output \/ SetWrite \/ SetRead
    \/ watch_input \/ WatchInitial \/ WatchAddEventDetect \/ WatchPoll \/ WatchWake
    \/ WatchExpire
    \/ Finally \/ MainExcept \/ Uncaught

\* the program as shipped: PINS is the table written in the source
ShippedInit ==
    /\ Init
    /\ PINS = <<LOW_FILL_SENSOR, ESPRESSO_PUMP_RELAY>>

\* the interpreter keeps running the main thread and the wall clock keeps
\* advancing; nothing is assumed of the line, the operator or the driver
FairSpec == ShippedInit /\ [][Next]_vars /\ WF_vars(MainStep) /\ WF_vars(Tick)

\* ================================================================ claims ====
\* the driver writes issued so far, in order
Writes == SelectSeq(ops, LAMBDA o : o.op = "output")

\* the lines printed so far with a given tag
Lines(tag) == SelectSeq(out, LAMBDA l : l.tag = tag)

IsOutput(cfg) == Upper(cfg.dir) = "OUT"
IsInput(cfg) == Upper(cfg.dir) = "IN"
Known == args.pin \in Names(PINS)

\* _setup_gpio ran to its end and main() went on to the command
Configured ==
    /\ pc \notin {"main", "setup"}
    /\ j > Len(PINS)
    /\ interrupted # "setup"

\* the electrical level that means logical ON / OFF for an OUTPUT descriptor
OnLevel(cfg) ==
    IF "active_high" \in DOMAIN cfg /\ cfg.active_high = FALSE THEN LOW ELSE HIGH
OffLevel(cfg) == IF OnLevel(cfg) = HIGH THEN LOW ELSE HIGH

\* C1: every run that has claimed the pins (any command but --list, once
\* _setup_gpio is through) ends, whether by completion, interrupt or a fault
\* in a driver call, with GPIO.cleanup invoked exactly once.  (Commands that
\* are rejected with an error or a warning are the subject of C2.)
C1_ReleasedExactlyOnce ==
    (pc = "exit" /\ Configured /\ Lines("ERROR") = << >> /\ Lines("WARN") = << >>)
    => cleanups = 1

\* C2: a command that aborts with an unknown pin, a wrong direction or an
\* empty OUTPUT set after the pins were configured ends with GPIO.cleanup
\* invoked exactly once.
C2_ErrorThenTeardown ==
    (pc = "exit" /\ (Lines("ERROR") # << >> \/ Lines("WARN") # << >>)) => cleanups = 1

\* C3: an uninterrupted test(device, n, delay) on an OUTPUT device with n >= 1
\* issues exactly 2n writes to that device's pin, alternating ON, OFF, ...
\* from ON to OFF, and then returns normally.
C3_TestWritesAlternate ==
    (/\ ~args.list
     /\ args.cmd = "test"
     /\ args.cycles >= 1
     /\ Known
     /\ IsOutput(Lookup(PINS, args.pin))
     /\ interrupted = "no"
     /\ exc = "none")
    => LET cfg == Lookup(PINS, args.pin)
       IN  /\ Len(Writes) <= 2 * args.cycles
           /\ \A m \in 1..Len(Writes) :
                  /\ Writes[m].pin = cfg.pin
                  /\ Writes[m].val = IF m % 2 = 1 THEN OnLevel(cfg) ELSE OffLevel(cfg)
           /\ pc \in {"finally", "return", "exit"} => Len(Writes) = 2 * args.cycles
           /\ pc = "exit" => exit = "ok"

C3_Witness ==
    /\ args.cmd = "test"
    /\ args.cycles >= 2
    /\ interrupted = "no"
    /\ pc = "exit"
    /\ exit = "ok"
    /\ Len(Writes) = 2 * args.cycles
    /\ Writes[Len(Writes)].val = OffLevel(Lookup(PINS, args.pin))

\* C4: once _setup_gpio is through and before a command writes, every OUTPUT
\* pin is at logical OFF: LOW for active_high, HIGH for active-low outputs.
C4_OutputsStartOff ==
    pc = "dispatch" =>
        \A n \in 1..Len(PINS) : IsOutput(PINS[n]) => level[PINS[n].pin] = OffLevel(PINS[n])

\* the positions inside the try blocks of cycle_all, test_pin_output and
\* watch_input, where their loops run
LoopPcs ==
    {"cyc_on", "cyc_hold_on", "cyc_off", "cyc_hold_off",
     "test_on", "test_hold_on", "test_off", "test_hold_off", "test_completed",
     "w_init", "w_add", "w_loop", "w_sleep"}

EdgeEvents == Lines("EDGE")

\* the raw transitions so far form one burst seen by the armed watcher, all
\* of it inside the debounce window, and the notification thread is idle
BurstOf(n) ==
    /\ args.cmd = "watch"
    /\ detect.armed
    /\ pending = 0
    /\ Len(raw) = n
    /\ \A m \in 1..n : raw[m].armed
    /\ raw[n].t - raw[1].t < detect.bouncetime

\* C6: a burst HIGH->LOW->HIGH->LOW inside debounce_ms, seen while the watch
\* is armed, gives exactly one edge event, and it reports the final level LOW.
C6_BurstCoalesced ==
    (BurstOf(3) /\ raw[3].val = LOW)
    => /\ Len(EdgeEvents) = 1
       /\ EdgeEvents[1].val[2] = "LOW"

\* C7: a transition that bounces back to the original level inside the
\* debounce window, seen while the watch is armed, gives no edge event.
C7_BounceBackSilent ==
    BurstOf(2) => EdgeEvents = << >>

\* the n-th OUTPUT descriptor of the registry, in registration order
OutIdx == {n \in 1..Len(PINS) : IsOutput(PINS[n])}
NthOut(n) == PINS[CHOOSE x \in OutIdx : Cardinality({y \in OutIdx : y < x}) = n - 1]

\* the device and state of the m-th write of a cycle over the OUTPUT devices
CycleDevice(m) == NthOut((((m - 1) \div 2) % Cardinality(OutIdx)) + 1)
CycleLevel(m) == IF m % 2 = 1 THEN OnLevel(CycleDevice(m)) ELSE OffLevel(CycleDevice(m))

\* C8: cycle writes ON then OFF to each OUTPUT device in registration order,
\* a hold after each write, starts over after the last device, and does not
\* end unless it is cancelled (or a driver call fails).
C8_CycleOrder ==
    (Configured /\ args.cmd = "cycle" /\ OutIdx # {})
    => /\ \A m \in 1..Len(Writes) :
              /\ Writes[m].pin = CycleDevice(m).pin
              /\ Writes[m].val = CycleLevel(m)
       /\ Len(Lines("STATE")) \in {Len(Writes), Len(Writes) + 1}
       /\ \A m \in 1..Len(Lines("STATE")) :
              /\ Lines("STATE")[m].name = CycleDevice(m).name
              /\ Lines("STATE")[m].val = IF m % 2 = 1 THEN "ON" ELSE "OFF"
       /\ pc \in {"cyc_hold_on", "cyc_off"} => Len(Writes) % 2 = 1
       /\ pc \in {"cyc_hold_off", "cyc_on"} => Len(Writes) % 2 = 0
       /\ pc \in {"finally", "return", "exit"}
              => interrupted \in LoopPcs \/ exc = "Exception"

C8_Witness ==
    /\ args.cmd = "cycle"
    /\ Cardinality(OutIdx) >= 2
    /\ round = 2
    /\ k = 2
    /\ pc = "cyc_hold_on"
    /\ interrupted = "no"

\* C9: cycle on a registry with no OUTPUT device returns at once with a
\* warning and issues no driver write.
C9_EmptyCycle ==
    (Configured /\ args.cmd = "cycle" /\ OutIdx = {})
    => /\ Writes = << >>
       /\ pc \in {"dispatch", "return", "exit"}
       /\ pc = "return" => out = <<Line("WARN", "", "No OUTPUT pins")>>
       /\ pc = "exit" => (exit = "ok" /\ Len(Lines("WARN")) = 1)

C9_Witness ==
    /\ args.cmd = "cycle"
    /\ ~args.list
    /\ OutIdx = {}
    /\ pc = "exit"
    /\ exit = "ok"
    /\ Lines("WARN") # << >>

\* the command names a pin it cannot act on
Rejected ==
    /\ ~args.list
    /\ \/ args.cmd \in {"test", "set", "watch"} /\ ~Known
       \/ args.cmd \in {"test", "set"} /\ Known /\ IsInput(Lookup(PINS, args.pin))
       \/ args.cmd = "watch" /\ Known /\ IsOutput(Lookup(PINS, args.pin))

\* C10: a command rejected for its pin name or direction issues no driver
\* write, read or edge subscription and leaves every pin level as
\* configuration left it.
C10_RejectedNoEffect ==
    (Rejected /\ Configured)
    => /\ \A m \in 1..Len(ops) :
              /\ ops[m].op = "setup"
              /\ level[ops[m].pin] = ops[m].val
       /\ ~detect.armed
       /\ pc \in {"dispatch", "return", "exit"}
       /\ pc = "return" => Len(Lines("ERROR")) = 1
       /\ pc = "exit" => exit = "ok"

C10_Witness ==
    /\ Rejected
    /\ args.cmd = "watch"
    /\ Known
    /\ pc = "exit"
    /\ exit = "ok"
    /\ Len(ops) = Len(PINS)

\* the descriptor a driver call on pin p is about
DeviceOfPin(p) == PINS[CHOOSE n \in 1..Len(PINS) : PINS[n].pin = p]

\* active_high of a descriptor, true when the key is absent
ActiveHigh(cfg) == IF "active_high" \in DOMAIN cfg THEN cfg.active_high ELSE TRUE

\* the logical state the m-th write of the command was asked to produce
Requested(m) ==
    CASE args.cmd = "cycle" -> Lines("STATE")[m].val = "ON"
      [] args.cmd = "test" -> Lines("CYCLE")[m].val = "ON"
      [] OTHER -> LogicalOn(args.state)

\* C11: every driver write of cycle, test and set carries HIGH if and only if
\* the requested logical state equals the target's active_high (true when the
\* descriptor has no such key).
C11_WriteLevelFollowsPolarity ==
    \A m \in 1..Len(Writes) :
        (Writes[m].val = HIGH) <=> (Requested(m) = ActiveHigh(DeviceOfPin(Writes[m].pin)))

C11_Witness ==
    /\ args.cmd = "cycle"
    /\ Len(Writes) >= 5
    /\ ~ActiveHigh(DeviceOfPin(Writes[3].pin))
    /\ Writes[3].val = LOW
    /\ Writes[4].val = HIGH
    /\ "active_high" \notin DOMAIN DeviceOfPin(Writes[5].pin)
    /\ Writes[5].val = HIGH

\* the levels watch has reported (initial state, snapshots, edge events) and
\* the driver reads they come from
WatchReports == SelectSeq(out, LAMBDA l : l.tag \in {"STATE Initial", "STATE", "EDGE"})
Reads == SelectSeq(ops, LAMBDA o : o.op = "input")
ReportedLevel(l) == l.val[Len(l.val) - 1]
ReportedLogical(l) == l.val[Len(l.val)]

\* active_low of a descriptor, false when the key is absent
ActiveLow(cfg) == IF "active_low" \in DOMAIN cfg THEN cfg.active_low ELSE FALSE

\* C12: every level watch reports is the level it read, translated as ACTIVE
\* iff (LOW and active_low) or (HIGH and not active_low); for an active-low
\* input a line that goes LOW gives an edge event reporting ACTIVE and a line
\* that goes HIGH one reporting INACTIVE.
C12_ReportsTranslated ==
    args.cmd = "watch"
    => /\ Len(WatchReports) = Len(Reads)
       /\ \A m \in 1..Len(WatchReports) :
              LET lvl == Reads[m].val
                  al == ActiveLow(watched)
              IN  /\ ReportedLevel(WatchReports[m]) = IF lvl = LOW THEN "LOW" ELSE "HIGH"
                  /\ (ReportedLogical(WatchReports[m]) = "ACTIVE")
                         <=> ((lvl = LOW /\ al) \/ (lvl = HIGH /\ ~al))
                  /\ ReportedLogical(WatchReports[m]) \in {"ACTIVE", "INACTIVE"}
       /\ (/\ Len(raw) = 1
           /\ raw[1].armed
           /\ detect.armed
           /\ pending = 0
           /\ ActiveLow(watched))
          => /\ Len(EdgeEvents) = 1
             /\ ReportedLogical(EdgeEvents[1]) = IF raw[1].val = LOW THEN "ACTIVE" ELSE "INACTIVE"

C12_Witness ==
    /\ args.cmd = "watch"
    /\ args.pin = "LOW_FILL_SENSOR"
    /\ Len(raw) = 1
    /\ EdgeEvents = <<Line("EDGE", "LOW_FILL_SENSOR", <<"FALLING", "LOW", "ACTIVE">>)>>
    /\ Len(Lines("STATE")) >= 1

\* the driver calls on pins made after configuration
PinOps == SelectSeq(ops, LAMBDA o : o.op \notin {"setup", "cleanup"})

\* set on an OUTPUT device that ran through without interrupt or fault
SetCompleted ==
    /\ Configured
    /\ args.cmd = "set"
    /\ Known
    /\ IsOutput(Lookup(PINS, args.pin))
    /\ interrupted = "no"
    /\ exc = "none"
    /\ pc \in {"finally", "return", "exit"}

\* C13: set on an OUTPUT device makes exactly one write and then one read of
\* the same pin and reports the polarity-normalised state of that read: ON
\* for a request of ON and OFF for a request of OFF, for either active_high.
C13_SetReadAfterWrite ==
    SetCompleted
    => LET cfg == Lookup(PINS, args.pin)
           conf == Lines("INFO")[Len(Lines("INFO"))]
           readOn == (PinOps[2].val = HIGH) <=> ActiveHigh(cfg)
       IN  /\ Len(PinOps) = 2
           /\ PinOps[1].op = "output" /\ PinOps[1].pin = cfg.pin
           /\ PinOps[2].op = "input" /\ PinOps[2].pin = cfg.pin
           /\ PinOps[2].val = PinOps[1].val
           /\ conf.name = args.pin
           /\ conf.val[1] = IF readOn THEN "ON" ELSE "OFF"
           /\ conf.val[1] = IF LogicalOn(args.state) THEN "ON" ELSE "OFF"
           /\ conf.val[2] = IF PinOps[2].val = HIGH THEN "HIGH" ELSE "LOW"

C13_Witness ==
    /\ SetCompleted
    /\ pc = "exit"
    /\ ~ActiveHigh(Lookup(PINS, args.pin))
    /\ args.state = <<"o","n">>
    /\ Lines("INFO") = <<Line("INFO", args.pin, <<"ON", "LOW">>)>>

\* the upper-case form of a lower-case letter of the accepted words
UpperOf(c) ==
    CASE c = "o" -> "O" [] c = "n" -> "N" [] c = "f" -> "F" [] c = "h" -> "H"
      [] c = "i" -> "I" [] c = "g" -> "G" [] c = "l" -> "L" [] c = "w" -> "W"
      [] c = "t" -> "T" [] c = "r" -> "R" [] c = "u" -> "U" [] c = "e" -> "E"
      [] c = "a" -> "A" [] c = "s" -> "S"
      [] OTHER -> c

\* s spells the lower-case word w in some letter case
Spells(s, w) ==
    /\ Len(s) = Len(w)
    /\ \A n \in 1..Len(w) : s[n] \in {w[n], UpperOf(w[n])}

SaysOn(s) ==
    \E w \in { <<"o","n">>, <<"h","i","g","h">>, <<"1">>, <<"t","r","u","e">> } : Spells(s, w)
SaysOff(s) ==
    \E w \in { <<"o","f","f">>, <<"l","o","w">>, <<"0">>, <<"f","a","l","s","e">> } : Spells(s, w)

\* C14: for one OUTPUT descriptor, set with on, high, 1 or true in any letter
\* case writes the ON level, and with off, low, 0 or false in any letter case
\* the opposite (OFF) level.
C14_StateWordsAgree ==
    (args.cmd = "set" /\ Writes # << >>)
    => LET cfg == Lookup(PINS, args.pin)
       IN  /\ Len(Writes) = 1
           /\ Writes[1].pin = cfg.pin
           /\ SaysOn(args.state) => Writes[1].val = OnLevel(cfg)
           /\ SaysOff(args.state) => Writes[1].val = OffLevel(cfg)

C14_Witness ==
    /\ args.cmd = "set"
    /\ args.state = <<"T","R","U","E">>
    /\ Known
    /\ ~ActiveHigh(Lookup(PINS, args.pin))
    /\ Writes = <<Op("output", Lookup(PINS, args.pin).pin, LOW, "main")>>
    /\ pc = "exit"

\* watch ran to the end of its duration
WatchExpired ==
    /\ args.cmd = "watch"
    /\ \E m \in 1..Len(out) : out[m] = Line("INFO", args.pin, "Done watching")

\* C15: a watch on an INPUT device always comes to an end, and when its
\* duration has run out the edge subscription is gone, the handle has been
\* released and the process ends normally, with no error reported.
C15_WatchTerminates ==
    /\ (pc = "w_init") ~> (pc = "exit")
    /\ [](WatchExpired
            => /\ pc \in {"finally", "return", "exit"}
               /\ Lines("ERROR") = << >>
               /\ exc = "none"
               /\ pc # "finally" => (cleanups = 1 /\ ~detect.armed /\ mode = "UNSET")
               /\ pc = "exit" => exit = "ok")

C15_Witness ==
    /\ WatchExpired
    /\ pc = "exit"
    /\ exit = "ok"
    /\ cleanups = 1
    /\ args.duration >= 1
    /\ Len(EdgeEvents) >= 1
    /\ Len(Lines("STATE")) >= 1

\* C16: the list operation makes no driver call (no configuration, write,
\* read, subscription or release) and leaves the driver state as it was.
C16_ListTouchesNothing ==
    args.list
    => /\ ops = << >>
       /\ mode = "UNSET"
       /\ \A p \in PinIds(PINS) : gpio[p] = Unset /\ level[p] = LOW
       /\ detect = NoDetect
       /\ cleanups = 0
       /\ pending = 0
       /\ pc \in {"main", "exit"}
       /\ pc = "exit" => (exit = "ok" /\ out = <<Line("INFO", "", "Available pins")>>)

C16_Witness ==
    /\ args.list
    /\ args.cmd = "cycle"
    /\ pc = "exit"
    /\ exit = "ok"
    /\ Len(out) = 1

\* C17: every driver call on a pin (write, read, edge subscription, the read
\* inside an edge callback) is made after the configuration of all pins and
\* before the release, in every interleaving of the watch loop, the release
\* and the callbacks of the notification thread.
C17_OpsWhileClaimed ==
    \A m \in 1..Len(ops) :
        ops[m].op \notin {"setup", "cleanup"}
        => /\ \A n \in 1..(m - 1) : ops[n].op # "cleanup"
           /\ Cardinality({n \in 1..(m - 1) : ops[n].op = "setup"}) = Len(PINS)

\* the OUTPUT devices whose line is at their logical ON level
DevicesOn == {n \in OutIdx : level[PINS[n].pin] = OnLevel(PINS[n])}

\* C18: at every point of cycle, from configuration to the release, at most
\* one OUTPUT device is logically ON.
C18_AtMostOneOn ==
    (Configured /\ args.cmd = "cycle" /\ cleanups = 0) => Cardinality(DevicesOn) <= 1

\* what set does with a state it takes for OFF: one write of the OFF level,
\* the OFF confirmation, one release, a normal exit and no error line
TreatedAsOff ==
    LET cfg == Lookup(PINS, args.pin)
    IN  /\ Writes = <<Op("output", cfg.pin, OffLevel(cfg), "main")>>
        /\ Lines("INFO")[Len(Lines("INFO"))].val[1] = "OFF"
        /\ Lines("ERROR") = << >>
        /\ pc # "finally" => cleanups = 1
        /\ pc = "exit" => exit = "ok"

\* C19 as stated: a state string that is none of on, off, high, low, 1, 0,
\* true, false in any letter case is not rejected but treated as OFF.
C19_UnacceptedIsOff ==
    (SetCompleted /\ ~SaysOn(args.state) /\ ~SaysOff(args.state)) => TreatedAsOff

\* the string without its leading and trailing white space
Core(s) ==
    LET ink == {n \in 1..Len(s) : s[n] \notin {" ", "\t", "\n"}}
    IN  IF ink = {} THEN << >>
        ELSE SubSeq(s, CHOOSE n \in ink : \A x \in ink : n <= x,
                       CHOOSE n \in ink : \A x \in ink : n >= x)

\* C19 amended: a state string that, with surrounding white space removed, is
\* none of the accepted words in any letter case is not rejected but treated
\* as OFF; one that is an ON word once stripped is treated as ON.
C19_UnacceptedAfterStripIsOff ==
    SetCompleted
    => /\ (~SaysOn(Core(args.state)) /\ ~SaysOff(Core(args.state))) => TreatedAsOff
       /\ SaysOn(Core(args.state))
              => Writes = <<Op("output", Lookup(PINS, args.pin).pin,
                               OnLevel(Lookup(PINS, args.pin)), "main")>>

C19_Witness ==
    /\ SetCompleted
    /\ args.state = <<"y","e","s">>
    /\ ~ActiveHigh(Lookup(PINS, args.pin))
    /\ Writes = <<Op("output", Lookup(PINS, args.pin).pin, HIGH, "main")>>
    /\ pc = "exit"
    /\ exit = "ok"
    /\ cleanups = 1

====
